---- MODULE Spec2Model ----
(***************************************************************************)
(* A model of filter_commits.py: the prefix rewriter                       *)
(* (rewrite_relative_path), the parser of SRC=DEST directives              *)
(* (parse_rewrites) and the patch rewriter (rewrite_patch_content).        *)
(*                                                                         *)
(* A Python str is a sequence of one-character strings.  An Optional value *)
(* is None == <<>> or Some(x) == <<x>>.  A dict is the sequence of its     *)
(* <<key, value>> pairs in insertion order.                                *)
(***************************************************************************)
EXTENDS Integers, Sequences, FiniteSets, TLC

VARIABLES
    \* rewrite_patch_content: its arguments
    patch_text, rewrites, existing, commit,
    \* rewrite_patch_content: its locals
    lines, idx, preamble, chunks, warnings, current_chunk, current_target,
    \* rewrite_patch_content: its return value and the position in its body
    result_text, pc,
    \* history of flush_chunk: the index of the in-progress chunk's header
    \* line and one record per flush of an in-progress chunk
    chunk_start, flushed,
    \* rewrite_relative_path: its argument and return value
    path, path_result,
    \* parse_rewrites: its argument, loop position, mapping and outcome
    entries, entry_idx, mapping, parse_status,
    \* generate_patches: its commits argument, the loop index, what was
    \* written to stderr and to output_dir, the list it returns, and the
    \* history of the content and warnings of each commit
    commits, commit_idx, stderr, files, written, gen_log

patchVars == <<patch_text, existing, commit, lines, idx, preamble, chunks, warnings, current_chunk, current_target, result_text, chunk_start, flushed>>

pathVars == <<path, path_result>>

parseVars == <<entries, entry_idx, mapping, parse_status>>

genVars == <<commits, commit_idx, stderr, files, written, gen_log>>

vars == <<patch_text, rewrites, existing, commit, lines, idx, preamble, chunks, warnings, current_chunk, current_target, result_text, pc, chunk_start, flushed, path, path_result, entries, entry_idx, mapping, parse_status, commits, commit_idx, stderr, files, written, gen_log>>

---------------------------------------------------------------------------
\* Bounds of the model.

\* The longest input patch, in lines.
MaxLines == 3

\* The longest path given to rewrite_relative_path, in characters.
MaxPathLen == 4

\* The largest prefix map given to rewrite_relative_path, in entries.
MaxMapLen == 2

\* The longest list of SRC=DEST directives given to parse_rewrites.
MaxEntries == 2

---------------------------------------------------------------------------
\* Optional values.

None == <<>>

Some(x) == <<x>>

\* Python truthiness of an Optional[str]: None and "" are falsy.
Truthy(opt) == opt # None /\ opt[1] # <<>>

---------------------------------------------------------------------------
\* str methods.

Min(a, b) == IF a <= b THEN a ELSE b

\* s[:n]
Take(s, n) == SubSeq(s, 1, Min(n, Len(s)))

\* s[n:]
Drop(s, n) == SubSeq(s, n + 1, Len(s))

\* s.startswith(p)
StartsWith(s, p) == Len(s) >= Len(p) /\ SubSeq(s, 1, Len(p)) = p

\* s.endswith(p)
EndsWith(s, p) == Len(s) >= Len(p) /\ SubSeq(s, Len(s) - Len(p) + 1, Len(s)) = p

\* The number of leading characters of s that are in cs.
LeadCount(s, cs) ==
    IF \A i \in 1..Len(s) : s[i] \in cs
    THEN Len(s)
    ELSE (CHOOSE i \in 1..Len(s) : s[i] \notin cs /\ \A j \in 1..(i - 1) : s[j] \in cs) - 1

\* The number of trailing characters of s that are in cs.
TrailCount(s, cs) ==
    IF \A i \in 1..Len(s) : s[i] \in cs
    THEN Len(s)
    ELSE Len(s) - (CHOOSE i \in 1..Len(s) : s[i] \notin cs /\ \A j \in (i + 1)..Len(s) : s[j] \in cs)

\* s.lstrip(cs)
LStrip(s, cs) == Drop(s, LeadCount(s, cs))

\* s.rstrip(cs)
RStrip(s, cs) == Take(s, Len(s) - TrailCount(s, cs))

\* s.strip(cs)
Strip(s, cs) == RStrip(LStrip(s, cs), cs)

\* The whitespace of str.strip() and str.split() among the model's characters.
Whitespace == {" ", "\t", "\n", "\r"}

SLASH == {"/"}

\* sep.join(parts)
RECURSIVE Join(_, _)
Join(parts, sep) ==
    IF parts = <<>> THEN <<>>
    ELSE IF Len(parts) = 1 THEN parts[1]
    ELSE parts[1] \o sep \o Join(Tail(parts), sep)

\* s.split(): the maximal runs of non-whitespace characters.
RECURSIVE Words(_)
Words(s) ==
    LET t == LStrip(s, Whitespace)
    IN  IF t = <<>> THEN <<>>
        ELSE LET n == IF \A i \in 1..Len(t) : t[i] \notin Whitespace
                      THEN Len(t)
                      ELSE (CHOOSE i \in 1..Len(t) : t[i] \in Whitespace /\ \A j \in 1..(i - 1) : t[j] \notin Whitespace) - 1
             IN  <<Take(t, n)>> \o Words(Drop(t, n))

\* The position of the first c in s, 0 when there is none.
IndexOf(s, c) ==
    IF \E i \in 1..Len(s) : s[i] = c
    THEN CHOOSE i \in 1..Len(s) : s[i] = c /\ \A j \in 1..(i - 1) : s[j] # c
    ELSE 0

\* s.split(c, 1): two parts at the first c, one part when s holds no c.
Split1(s, c) ==
    LET k == IndexOf(s, c)
    IN  IF k = 0 THEN <<s>> ELSE <<Take(s, k - 1), Drop(s, k)>>

\* s.splitlines(), for the line boundaries "\n", "\r\n" and "\r"; the last
\* line needs no boundary and an empty last line is not a line.
RECURSIVE SplitLines(_)
SplitLines(s) ==
    IF s = <<>> THEN <<>>
    ELSE LET k == IF \E i \in 1..Len(s) : s[i] \in {"\n", "\r"}
                  THEN CHOOSE i \in 1..Len(s) : s[i] \in {"\n", "\r"} /\ \A j \in 1..(i - 1) : s[j] \notin {"\n", "\r"}
                  ELSE 0
         IN  IF k = 0 THEN <<s>>
             ELSE LET next == IF s[k] = "\r" /\ k < Len(s) /\ s[k + 1] = "\n" THEN k + 1 ELSE k
                  IN  <<Take(s, k - 1)>> \o SplitLines(Drop(s, next))

\* All sequences over S of length at most n.
SeqsUpTo(S, n) == UNION {[1..k -> S] : k \in 0..n}

---------------------------------------------------------------------------
\* rewrite_relative_path.

\* The loop with the test normalized.startswith(src) in place of
\* normalized.startswith(src + "/"): a source matches as a piece of text.
RECURSIVE RewriteLoopTextual(_, _, _)
RewriteLoopTextual(normalized, rw, k) ==
    IF k > Len(rw) THEN normalized
    ELSE LET src == rw[k][1]
             dest == rw[k][2]
         IN  IF normalized = src THEN dest
             ELSE IF StartsWith(normalized, src)
                  THEN LET suffix == LStrip(Drop(normalized, Len(src)), SLASH)
                       IN  IF suffix # <<>> THEN dest \o <<"/">> \o suffix ELSE dest
                  ELSE RewriteLoopTextual(normalized, rw, k + 1)

\* The loop over reversed(rewrites.items()): the last matching entry wins.
RECURSIVE RewriteLoopLast(_, _, _)
RewriteLoopLast(normalized, rw, k) ==
    IF k > Len(rw) THEN normalized
    ELSE LET src == rw[Len(rw) - k + 1][1]
             dest == rw[Len(rw) - k + 1][2]
         IN  IF normalized = src THEN dest
             ELSE IF StartsWith(normalized, src \o <<"/">>)
                  THEN LET suffix == LStrip(Drop(normalized, Len(src)), SLASH)
                       IN  IF suffix # <<>> THEN dest \o <<"/">> \o suffix ELSE dest
                  ELSE RewriteLoopLast(normalized, rw, k + 1)

\* The loop over rewrites.items(), from entry k on.
RECURSIVE RewriteLoop(_, _, _)
RewriteLoop(normalized, rw, k) ==
    IF k > Len(rw) THEN normalized
    ELSE LET src == rw[k][1]
             dest == rw[k][2]
         IN  IF normalized = src THEN dest
             ELSE IF StartsWith(normalized, src \o <<"/">>)
                  THEN LET suffix == LStrip(Drop(normalized, Len(src)), SLASH)
                       IN  IF suffix # <<>> THEN dest \o <<"/">> \o suffix ELSE dest
                  ELSE RewriteLoop(normalized, rw, k + 1)

\* rewrite_relative_path with path.lstrip("/") in place of path.strip("/").
rewrite_relative_path_lstrip(p, rw) == RewriteLoop(LStrip(p, SLASH), rw, 1)

rewrite_relative_path(p, rw) == RewriteLoop(Strip(p, SLASH), rw, 1)

---------------------------------------------------------------------------
\* parse_rewrites.

\* s.split(c): the parts of s between the occurrences of c.
RECURSIVE SplitOn(_, _)
SplitOn(s, c) ==
    LET k == IndexOf(s, c)
    IN  IF k = 0 THEN <<s>> ELSE <<Take(s, k - 1)>> \o SplitOn(Drop(s, k), c)

\* The path components that count: not the empty ones and not ".".
RECURSIVE SelectParts(_)
SelectParts(parts) ==
    IF parts = <<>> THEN <<>>
    ELSE IF parts[1] \in {<<>>, <<".">>} THEN SelectParts(Tail(parts))
    ELSE <<parts[1]>> \o SelectParts(Tail(parts))

\* str(PurePosixPath(s)): empty and "." components are dropped, slashes are
\* collapsed, the root is "/" ("//" for exactly two leading slashes), and the
\* path with no root and no component is ".".
PosixPathStr(s) ==
    LET lead == LeadCount(s, SLASH)
        anchor == IF lead = 2 THEN <<"/", "/">> ELSE IF lead >= 1 THEN <<"/">> ELSE <<>>
        parts == SelectParts(SplitOn(s, "/"))
    IN  IF anchor = <<>> /\ parts = <<>> THEN <<".">> ELSE anchor \o Join(parts, <<"/">>)

\* mapping[key] = value on a dict: a key already present keeps its place.
DictSet(m, key, value) ==
    IF \E i \in 1..Len(m) : m[i][1] = key
    THEN [i \in 1..Len(m) |-> IF m[i][1] = key THEN <<key, value>> ELSE m[i]]
    ELSE Append(m, <<key, value>>)

\* One iteration of the loop over entries: the mapping after it, or the
\* ValueError it raises.
ParseEntryStep(raw, m) ==
    IF IndexOf(raw, "=") = 0
    THEN [raised |-> TRUE, mapping |-> m]
    ELSE LET halves == Split1(raw, "=")
             src_norm == PosixPathStr(Strip(Strip(halves[1], Whitespace), SLASH))
             dest_norm == PosixPathStr(Strip(Strip(halves[2], Whitespace), SLASH))
         IN  IF src_norm = <<>> \/ dest_norm = <<>>
             THEN [raised |-> TRUE, mapping |-> m]
             ELSE [raised |-> FALSE, mapping |-> DictSet(m, src_norm, dest_norm)]

\* The SRC=DEST directives the model gives to parse_rewrites.
E_A_B == <<"a", "=", "b">>

E_NO_SRC == <<"=", "b">>

E_NO_DEST == <<"a", "=">>

E_SLASH_SRC == <<"/", "=", "b">>

E_NO_EQUALS == <<"a", "b">>

E_PADDED == <<" ", "a", "/", " ", "=", "/", "c", "/">>

E_A_C == <<"a", "=", "c">>

E_DOTTED == <<"a", "/", "/", ".", "/", "b", "=", "c">>

EntryPool == {E_A_B, E_NO_SRC, E_NO_DEST, E_SLASH_SRC, E_NO_EQUALS, E_PADDED, E_A_C, E_DOTTED}

IdlePatch ==
    /\ patch_text = <<>>
    /\ existing = {}
    /\ commit = <<>>
    /\ lines = <<>>
    /\ idx = 0
    /\ preamble = <<>>
    /\ chunks = <<>>
    /\ warnings = <<>>
    /\ current_chunk = None
    /\ current_target = None
    /\ result_text = <<>>
    /\ chunk_start = 0
    /\ flushed = <<>>

IdleGen ==
    /\ commits = <<>>
    /\ commit_idx = 0
    /\ stderr = <<>>
    /\ files = <<>>
    /\ written = <<>>
    /\ gen_log = <<>>

IdlePath ==
    /\ path = <<>>
    /\ path_result = <<>>

IdleParse ==
    /\ entries = <<>>
    /\ entry_idx = 0
    /\ mapping = <<>>
    /\ parse_status = "idle"

InitParse ==
    /\ entries \in SeqsUpTo(EntryPool, MaxEntries)
    /\ entry_idx = 1
    /\ mapping = <<>>
    /\ parse_status = "run"
    /\ pc = "parse"
    /\ rewrites = <<>>
    /\ IdlePatch
    /\ IdlePath
    /\ IdleGen

\* The body of the loop, for the entry at entry_idx.
ParseEntry ==
    /\ pc = "parse"
    /\ parse_status = "run"
    /\ entry_idx <= Len(entries)
    /\ LET step == ParseEntryStep(entries[entry_idx], mapping)
       IN  /\ mapping' = step.mapping
           /\ parse_status' = IF step.raised THEN "error" ELSE "run"
           /\ entry_idx' = IF step.raised THEN entry_idx ELSE entry_idx + 1
    /\ UNCHANGED <<entries, pc, rewrites, patchVars, pathVars, genVars>>

\* return mapping
ParseReturn ==
    /\ pc = "parse"
    /\ parse_status = "run"
    /\ entry_idx > Len(entries)
    /\ parse_status' = "ok"
    /\ UNCHANGED <<entries, entry_idx, mapping, pc, rewrites, patchVars, pathVars, genVars>>

NextParse == ParseEntry \/ ParseReturn

SpecParse == InitParse /\ [][NextParse]_vars

---------------------------------------------------------------------------
\* rewrite_relative_path on bounded inputs.

PathChars == {"a", "b", "/"}

\* Sources as parse_rewrites leaves them: no leading or trailing slash.
K_A == <<"a">>

K_B == <<"b">>

K_A_B == <<"a", "/", "b">>

K_AB == <<"a", "b">>

D_B == <<"b">>

D_C == <<"c">>

D_C_D == <<"c", "/", "d">>

SourcePool == {K_A, K_B, K_A_B, K_AB}

DestPool == {D_B, D_C, D_C_D}

\* The prefix maps of at most n entries: the keys of a dict are distinct.
PrefixMaps(n) == {m \in SeqsUpTo(SourcePool \X DestPool, n) : \A i, j \in 1..Len(m) : i # j => m[i][1] # m[j][1]}

InitPath ==
    /\ path \in SeqsUpTo(PathChars, MaxPathLen)
    /\ rewrites \in PrefixMaps(MaxMapLen)
    /\ path_result = <<>>
    /\ pc = "call"
    /\ IdlePatch
    /\ IdleParse
    /\ IdleGen

RewriteCall ==
    /\ pc = "call"
    /\ path_result' = rewrite_relative_path(path, rewrites)
    /\ pc' = "return"
    /\ UNCHANGED <<path, rewrites, patchVars, parseVars, genVars>>

NextPath == RewriteCall

SpecPath == InitPath /\ [][NextPath]_vars

---------------------------------------------------------------------------
\* rewrite_patch_content.

DIFF_GIT == <<"d", "i", "f", "f", " ", "-", "-", "g", "i", "t", " ">>

DEV_NULL == <<"/", "d", "e", "v", "/", "n", "u", "l", "l">>

MINUS3 == <<"-", "-", "-">>

PLUS3 == <<"+", "+", "+">>

MINUS_SP == <<"-", "-", "-", " ">>

PLUS_SP == <<"+", "+", "+", " ">>

MARK_A == <<"a", "/">>

MARK_B == <<"b", "/">>

RENAME_FROM == <<"r", "e", "n", "a", "m", "e", " ", "f", "r", "o", "m", " ">>

RENAME_TO == <<"r", "e", "n", "a", "m", "e", " ", "t", "o", " ">>

COPY_FROM == <<"c", "o", "p", "y", " ", "f", "r", "o", "m", " ">>

COPY_TO == <<"c", "o", "p", "y", " ", "t", "o", " ">>

WARN_HEAD == <<"W", "a", "r", "n", "i", "n", "g", ":", " ", "s", "k", "i", "p", "p", "i", "n", "g", " ", "c", "o", "m", "m", "i", "t", " ">>

WARN_FILE == <<" ", "f", "i", "l", "e", " ">>

WARN_TAIL == <<" ", "(", "m", "i", "s", "s", "i", "n", "g", " ", "t", "a", "r", "g", "e", "t", ")">>

UNKNOWN_PATH == <<"u", "n", "k", "n", "o", "w", "n", " ", "p", "a", "t", "h">>

NEWLINE == <<"\n">>

\* f"Warning: skipping commit {commit} file {missing} (missing target)"
WarningText(cm, missing) == WARN_HEAD \o cm \o WARN_FILE \o missing \o WARN_TAIL

\* The early return for an empty prefix map.
NoRewriteResult(text) == IF EndsWith(text, NEWLINE) THEN text ELSE text \o NEWLINE

\* flush_chunk that warns only of a target that was set: a chunk with no
\* target is dropped without a warning.
flush_chunk_quiet(cc, ct, chs, ws, ex, cm) ==
    IF cc = None
    THEN [chunks |-> chs, warnings |-> ws, current_chunk |-> cc, current_target |-> ct, queried |-> FALSE]
    ELSE IF Truthy(ct) /\ ct[1] \in ex
         THEN [chunks |-> Append(chs, cc[1]), warnings |-> ws, current_chunk |-> None, current_target |-> None, queried |-> TRUE]
         ELSE [chunks |-> chs, warnings |-> IF Truthy(ct) THEN Append(ws, WarningText(cm, ct[1])) ELSE ws, current_chunk |-> None, current_target |-> None, queried |-> Truthy(ct)]

\* flush_chunk with the test "not current_target or ...exists()": a chunk with
\* no target is kept.
flush_chunk_keep_unknown(cc, ct, chs, ws, ex, cm) ==
    IF cc = None
    THEN [chunks |-> chs, warnings |-> ws, current_chunk |-> cc, current_target |-> ct, queried |-> FALSE]
    ELSE IF ~Truthy(ct) \/ ct[1] \in ex
         THEN [chunks |-> Append(chs, cc[1]), warnings |-> ws, current_chunk |-> None, current_target |-> None, queried |-> Truthy(ct)]
         ELSE [chunks |-> chs, warnings |-> Append(ws, WarningText(cm, ct[1])), current_chunk |-> None, current_target |-> None, queried |-> TRUE]

\* flush_chunk without its last two assignments: the chunk and its target
\* stay as they were.
flush_chunk_noreset(cc, ct, chs, ws, ex, cm) ==
    IF cc = None
    THEN [chunks |-> chs, warnings |-> ws, current_chunk |-> cc, current_target |-> ct, queried |-> FALSE]
    ELSE IF Truthy(ct) /\ ct[1] \in ex
         THEN [chunks |-> Append(chs, cc[1]), warnings |-> ws, current_chunk |-> cc, current_target |-> ct, queried |-> TRUE]
         ELSE LET missing == IF Truthy(ct) THEN ct[1] ELSE UNKNOWN_PATH
              IN  [chunks |-> chs, warnings |-> Append(ws, WarningText(cm, missing)), current_chunk |-> cc, current_target |-> ct, queried |-> Truthy(ct)]

\* flush_chunk, on the closure's variables: what chunks, warnings,
\* current_chunk and current_target are after it, and whether it asked
\* (base_dir / current_target).exists().
flush_chunk(cc, ct, chs, ws, ex, cm) ==
    IF cc = None
    THEN [chunks |-> chs, warnings |-> ws, current_chunk |-> cc, current_target |-> ct, queried |-> FALSE]
    ELSE IF Truthy(ct) /\ ct[1] \in ex
         THEN [chunks |-> Append(chs, cc[1]), warnings |-> ws, current_chunk |-> None, current_target |-> None, queried |-> TRUE]
         ELSE LET missing == IF Truthy(ct) THEN ct[1] ELSE UNKNOWN_PATH
              IN  [chunks |-> chs, warnings |-> Append(ws, WarningText(cm, missing)), current_chunk |-> None, current_target |-> None, queried |-> Truthy(ct)]

\* One of the two path tokens of a file header.
RewriteToken(prefixed, rw) ==
    IF StartsWith(prefixed, MARK_A) \/ StartsWith(prefixed, MARK_B)
    THEN Take(prefixed, 2) \o rewrite_relative_path(Drop(prefixed, 2), rw)
    ELSE prefixed

\* HeaderText with the loop over the first path token alone.
HeaderText_first(line, rw) ==
    LET parts == Words(line)
        rebuilt == IF Len(parts) >= 4
                   THEN [i \in 1..Len(parts) |-> IF i = 3 THEN RewriteToken(parts[i], rw) ELSE parts[i]]
                   ELSE parts
    IN  Join(rebuilt, <<" ">>)

\* The first line of the chunk a file header starts.
HeaderText(line, rw) ==
    LET parts == Words(line)
        rebuilt == IF Len(parts) >= 4
                   THEN [i \in 1..Len(parts) |-> IF i \in {3, 4} THEN RewriteToken(parts[i], rw) ELSE parts[i]]
                   ELSE parts
    IN  Join(rebuilt, <<" ">>)

\* IsHeaderLine that asks for the four tokens of a whole header.
IsHeaderLine_full(line) == StartsWith(line, DIFF_GIT) /\ Len(Words(line)) >= 4

IsHeaderLine(line) == StartsWith(line, DIFF_GIT)

IsPathLine(line) == StartsWith(line, MINUS_SP) \/ StartsWith(line, PLUS_SP)

IsAnnotationLine(line) ==
    \/ StartsWith(line, RENAME_FROM)
    \/ StartsWith(line, RENAME_TO)
    \/ StartsWith(line, COPY_FROM)
    \/ StartsWith(line, COPY_TO)

\* TargetAfter with the prefix compared as it was sliced, space and all.
TargetAfter_spaced(prefix, rel, ct) ==
    IF prefix = PLUS_SP THEN Some(rel)
    ELSE IF prefix = MINUS_SP /\ ct = None THEN Some(rel)
    ELSE ct

\* The target after a path line whose path was rewritten to rel.
TargetAfter(prefix, rel, ct) ==
    IF prefix = PLUS3 THEN Some(rel)
    ELSE IF prefix = MINUS3 /\ ct = None THEN Some(rel)
    ELSE ct

\* A "--- " or "+++ " line inside a chunk: the line stored and the target.
PathLineStep(line, ct, rw) ==
    LET prefix == Take(line, 4)
        path_str == Drop(line, 4)
    IN  IF path_str # DEV_NULL /\ (StartsWith(path_str, MARK_A) \/ StartsWith(path_str, MARK_B))
        THEN LET rel == rewrite_relative_path(Drop(path_str, 2), rw)
             IN  [rewritten |-> prefix \o Take(path_str, 2) \o rel, target |-> TargetAfter(prefix, rel, ct)]
        ELSE IF path_str # DEV_NULL
             THEN LET rel == rewrite_relative_path(path_str, rw)
                  IN  [rewritten |-> prefix \o rel, target |-> TargetAfter(prefix, rel, ct)]
             ELSE [rewritten |-> line, target |-> IF ct = None /\ prefix = MINUS3 THEN None ELSE ct]

\* A rename or copy annotation inside a chunk: the line stored.
AnnotationText(line, rw) ==
    LET halves == Split1(line, " ")
        rel == rewrite_relative_path(Strip(halves[2], Whitespace), rw)
    IN  halves[1] \o <<" ">> \o rel

\* The lines of the chunks, one chunk after the other.
RECURSIVE Flatten(_)
Flatten(chs) == IF chs = <<>> THEN <<>> ELSE chs[1] \o Flatten(Tail(chs))

\* The text returned without the test "if not chunks": the preamble is
\* returned also when no chunk is kept.
Reassemble_always(pre, chs) ==
    LET head == IF pre # <<>> /\ pre[Len(pre)] # <<>> THEN Append(pre, <<>>) ELSE pre
    IN  RStrip(Join(head \o Flatten(chs), NEWLINE), {"\n"}) \o NEWLINE

\* The text returned after the last flush.
Reassemble(pre, chs) ==
    IF chs = <<>> THEN <<>>
    ELSE LET head == IF pre # <<>> /\ pre[Len(pre)] # <<>> THEN Append(pre, <<>>) ELSE pre
         IN  RStrip(Join(head \o Flatten(chs), NEWLINE), {"\n"}) \o NEWLINE

\* One turn of the loop over the lines, on the record st of the accumulators.
ScanLine(st, line, rw, ex, cm) ==
    IF IsHeaderLine(line)
    THEN LET f == flush_chunk(st.current_chunk, st.current_target, st.chunks, st.warnings, ex, cm)
         IN  [preamble |-> st.preamble, chunks |-> f.chunks, warnings |-> f.warnings, current_chunk |-> Some(<<HeaderText(line, rw)>>), current_target |-> f.current_target]
    ELSE IF st.current_chunk = None
    THEN [st EXCEPT !.preamble = Append(@, line)]
    ELSE IF IsPathLine(line)
    THEN LET step == PathLineStep(line, st.current_target, rw)
         IN  [st EXCEPT !.current_chunk = Some(Append(@[1], step.rewritten)), !.current_target = step.target]
    ELSE IF IsAnnotationLine(line)
    THEN [st EXCEPT !.current_chunk = Some(Append(@[1], AnnotationText(line, rw)))]
    ELSE [st EXCEPT !.current_chunk = Some(Append(@[1], line))]

\* The loop over the lines ls[k..].
RECURSIVE ScanLines(_, _, _, _, _, _)
ScanLines(st, ls, k, rw, ex, cm) ==
    IF k > Len(ls) THEN st
    ELSE ScanLines(ScanLine(st, ls[k], rw, ex, cm), ls, k + 1, rw, ex, cm)

\* rewrite_patch_content as one call: the text and the warnings it returns.
rewrite_patch_content(text, rw, ex, cm) ==
    IF rw = <<>>
    THEN [text |-> NoRewriteResult(text), warnings |-> <<>>]
    ELSE LET start == [preamble |-> <<>>, chunks |-> <<>>, warnings |-> <<>>, current_chunk |-> None, current_target |-> None]
             st == ScanLines(start, SplitLines(text), 1, rw, ex, cm)
             f == flush_chunk(st.current_chunk, st.current_target, st.chunks, st.warnings, ex, cm)
         IN  [text |-> Reassemble(st.preamble, f.chunks), warnings |-> f.warnings]

\* The lines the model builds its input patches from.
L_FROM == <<"F", "r", "o", "m", " ", "c", "1">>

L_BLANK == <<>>

L_DIFF_OLD == <<"d", "i", "f", "f", " ", "-", "-", "g", "i", "t", " ", "a", "/", "o", "l", "d", "/", "a", " ", "b", "/", "o", "l", "d", "/", "a">>

L_DIFF_Z == <<"d", "i", "f", "f", " ", "-", "-", "g", "i", "t", " ", "a", "/", "z", " ", "b", "/", "z">>

L_DIFF_SHORT == <<"d", "i", "f", "f", " ", "-", "-", "g", "i", "t", " ">>

L_MINUS_OLD == <<"-", "-", "-", " ", "a", "/", "o", "l", "d", "/", "a">>

L_PLUS_OLD == <<"+", "+", "+", " ", "b", "/", "o", "l", "d", "/", "a">>

L_PLUS_NULL == <<"+", "+", "+", " ", "/", "d", "e", "v", "/", "n", "u", "l", "l">>

L_RENAME == <<"r", "e", "n", "a", "m", "e", " ", "f", "r", "o", "m", " ", "o", "l", "d", "/", "a">>

L_HUNK == <<"@", "@">>

L_PLUS_Z == <<"+", "+", "+", " ", "b", "/", "z">>

L_MINUS_NULL == <<"-", "-", "-", " ", "/", "d", "e", "v", "/", "n", "u", "l", "l">>

L_COPY == <<"c", "o", "p", "y", " ", "t", "o", " ", "o", "l", "d", "/", "b">>

L_PLUS_BARE == <<"+", "+", "+", " ", "o", "l", "d", "/", "a">>

L_DIFF_MOVE == <<"d", "i", "f", "f", " ", "-", "-", "g", "i", "t", " ", "a", "/", "o", "l", "d", "/", "a", " ", "b", "/", "z">>

LinePool == {L_FROM, L_BLANK, L_DIFF_OLD, L_DIFF_Z, L_DIFF_SHORT, L_MINUS_OLD, L_PLUS_OLD, L_PLUS_NULL, L_RENAME, L_HUNK, L_PLUS_Z, L_MINUS_NULL, L_COPY, L_PLUS_BARE, L_DIFF_MOVE}

P_OLD == <<"o", "l", "d">>

P_NEW == <<"n", "e", "w">>

P_NEW_A == <<"n", "e", "w", "/", "a">>

P_Z == <<"z">>

COMMIT1 == <<"c", "1">>

\* The empty prefix map and the map {old: new}.
MapChoices == {<<>>, <<<<P_OLD, P_NEW>>>>}

\* The existence predicates: the set of paths that exist under base_dir.
ExistChoices == {{}, {P_NEW_A, P_Z}}

Init ==
    /\ patch_text \in {Join(ls, NEWLINE) : ls \in SeqsUpTo(LinePool, MaxLines)}
    /\ rewrites \in MapChoices
    /\ existing \in ExistChoices
    /\ commit = COMMIT1
    /\ lines = <<>>
    /\ idx = 0
    /\ preamble = <<>>
    /\ chunks = <<>>
    /\ warnings = <<>>
    /\ current_chunk = None
    /\ current_target = None
    /\ result_text = <<>>
    /\ chunk_start = 0
    /\ flushed = <<>>
    /\ pc = "start"
    /\ IdlePath
    /\ IdleParse
    /\ IdleGen

\* The record of a flush of the in-progress chunk, if there is one.
FlushRecord(f) ==
    IF current_chunk = None THEN flushed
    ELSE Append(flushed, [first |-> chunk_start, last |-> idx - 1, chunk |-> current_chunk[1], target |-> current_target, kept |-> Len(f.chunks) > Len(chunks), queried |-> f.queried, warnings |-> SubSeq(f.warnings, Len(warnings) + 1, Len(f.warnings))])

\* if not rewrites: return patch_text with a newline at its end, no warnings
NoRewrites ==
    /\ pc = "start"
    /\ rewrites = <<>>
    /\ result_text' = NoRewriteResult(patch_text)
    /\ pc' = "done"
    /\ UNCHANGED <<patch_text, rewrites, existing, commit, lines, idx, preamble, chunks, warnings, current_chunk, current_target, chunk_start, flushed, pathVars, parseVars, genVars>>

\* lines = patch_text.splitlines() and the empty accumulators
SplitInput ==
    /\ pc = "start"
    /\ rewrites # <<>>
    /\ lines' = SplitLines(patch_text)
    /\ idx' = 1
    /\ pc' = "scan"
    /\ UNCHANGED <<patch_text, rewrites, existing, commit, preamble, chunks, warnings, current_chunk, current_target, result_text, chunk_start, flushed, pathVars, parseVars, genVars>>

\* A line that starts with "diff --git ": flush, then start a chunk.
HeaderLine ==
    /\ pc = "scan"
    /\ idx <= Len(lines)
    /\ IsHeaderLine(lines[idx])
    /\ LET f == flush_chunk(current_chunk, current_target, chunks, warnings, existing, commit)
       IN  /\ chunks' = f.chunks
           /\ warnings' = f.warnings
           /\ current_target' = f.current_target
           /\ flushed' = FlushRecord(f)
    /\ current_chunk' = Some(<<HeaderText(lines[idx], rewrites)>>)
    /\ chunk_start' = idx
    /\ idx' = idx + 1
    /\ UNCHANGED <<patch_text, rewrites, existing, commit, lines, preamble, result_text, pc, pathVars, parseVars, genVars>>

\* A line before the first file header.
PreambleLine ==
    /\ pc = "scan"
    /\ idx <= Len(lines)
    /\ ~IsHeaderLine(lines[idx])
    /\ current_chunk = None
    /\ preamble' = Append(preamble, lines[idx])
    /\ idx' = idx + 1
    /\ UNCHANGED <<patch_text, rewrites, existing, commit, lines, chunks, warnings, current_chunk, current_target, result_text, pc, chunk_start, flushed, pathVars, parseVars, genVars>>

\* A "--- " or "+++ " line of the in-progress chunk.
PathLine ==
    /\ pc = "scan"
    /\ idx <= Len(lines)
    /\ ~IsHeaderLine(lines[idx])
    /\ current_chunk # None
    /\ IsPathLine(lines[idx])
    /\ LET step == PathLineStep(lines[idx], current_target, rewrites)
       IN  /\ current_target' = step.target
           /\ current_chunk' = Some(Append(current_chunk[1], step.rewritten))
    /\ idx' = idx + 1
    /\ UNCHANGED <<patch_text, rewrites, existing, commit, lines, preamble, chunks, warnings, result_text, pc, chunk_start, flushed, pathVars, parseVars, genVars>>

\* A rename or copy annotation of the in-progress chunk.
AnnotationLine ==
    /\ pc = "scan"
    /\ idx <= Len(lines)
    /\ ~IsHeaderLine(lines[idx])
    /\ current_chunk # None
    /\ ~IsPathLine(lines[idx])
    /\ IsAnnotationLine(lines[idx])
    /\ current_chunk' = Some(Append(current_chunk[1], AnnotationText(lines[idx], rewrites)))
    /\ idx' = idx + 1
    /\ UNCHANGED <<patch_text, rewrites, existing, commit, lines, preamble, chunks, warnings, current_target, result_text, pc, chunk_start, flushed, pathVars, parseVars, genVars>>

\* Any other line of the in-progress chunk.
OtherLine ==
    /\ pc = "scan"
    /\ idx <= Len(lines)
    /\ ~IsHeaderLine(lines[idx])
    /\ current_chunk # None
    /\ ~IsPathLine(lines[idx])
    /\ ~IsAnnotationLine(lines[idx])
    /\ current_chunk' = Some(Append(current_chunk[1], lines[idx]))
    /\ idx' = idx + 1
    /\ UNCHANGED <<patch_text, rewrites, existing, commit, lines, preamble, chunks, warnings, current_target, result_text, pc, chunk_start, flushed, pathVars, parseVars, genVars>>

\* After the last line: the last flush and the return.
Finish ==
    /\ pc = "scan"
    /\ idx > Len(lines)
    /\ LET f == flush_chunk(current_chunk, current_target, chunks, warnings, existing, commit)
       IN  /\ chunks' = f.chunks
           /\ warnings' = f.warnings
           /\ current_chunk' = f.current_chunk
           /\ current_target' = f.current_target
           /\ flushed' = FlushRecord(f)
           /\ result_text' = Reassemble(preamble, f.chunks)
    /\ pc' = "done"
    /\ UNCHANGED <<patch_text, rewrites, existing, commit, lines, idx, preamble, chunk_start, pathVars, parseVars, genVars>>

Next ==
    \/ NoRewrites
    \/ SplitInput
    \/ HeaderLine
    \/ PreambleLine
    \/ PathLine
    \/ AnnotationLine
    \/ OtherLine
    \/ Finish

Spec == Init /\ [][Next]_vars

---------------------------------------------------------------------------
\* generate_patches: one patch file per commit, for the commits whose patch
\* is not blank.

MaxCommits == 2

\* A commit id longer than the twelve characters a patch name takes of it.
COMMIT_LONG == <<"0", "1", "2", "3", "4", "5", "6", "7", "8", "9", "a", "b", "c">>

CommitPool == {COMMIT1, COMMIT_LONG}

\* What git format-patch may print for a commit: nothing, white space, mail
\* headers alone, a patch of one chunk, a patch of two chunks.
G_EMPTY == <<>>

G_BLANK == NEWLINE

G_MAIL == L_FROM \o NEWLINE

G_ONE == Join(<<L_FROM, L_BLANK, L_DIFF_OLD, L_MINUS_OLD, L_PLUS_OLD, L_HUNK>>, NEWLINE) \o NEWLINE

G_TWO == Join(<<L_FROM, L_BLANK, L_DIFF_OLD, L_PLUS_OLD, L_DIFF_Z, L_PLUS_Z>>, NEWLINE) \o NEWLINE \o NEWLINE

GitOutputs == {G_EMPTY, G_BLANK, G_MAIL, G_ONE, G_TWO}

\* What git prints to its stderr when it fails.
GIT_ERROR == <<"f", "a", "t", "a", "l", "\n">>

Digit(n) == <<"0", "1", "2", "3", "4", "5", "6", "7", "8", "9">>[n + 1]

\* f"{n:04d}", for n below 10000
Pad4(n) == <<Digit((n \div 1000) % 10), Digit((n \div 100) % 10), Digit((n \div 10) % 10), Digit(n % 10)>>

DOT_PATCH == <<".", "p", "a", "t", "c", "h">>

\* f"{idx:04d}-{commit[:12]}.patch"
PatchName(n, cm) == Pad4(n) \o <<"-">> \o Take(cm, 12) \o DOT_PATCH

\* run_git: the output of git, stripped
run_git(out) == Strip(out, Whitespace)

\* The content and the warnings of a commit's patch, git having printed out.
PatchOf(out, rw, ex, cm) ==
    IF rw # <<>>
    THEN rewrite_patch_content(run_git(out), rw, ex, cm)
    ELSE [text |-> run_git(out), warnings |-> <<>>]

\* Each warning with a newline at its end.
WarningLines(ws) == [k \in 1..Len(ws) |-> ws[k] \o NEWLINE]

\* The end of the loop body with the test for a blank patch moved before the
\* warnings are written.
EmitStep_skip_first(r, n, cm, err, fs, wr) ==
    IF Strip(r.text, Whitespace) = <<>>
    THEN [stderr |-> err, files |-> fs, written |-> wr]
    ELSE [stderr |-> err \o WarningLines(r.warnings), files |-> Append(fs, <<PatchName(n, cm), r.text>>), written |-> Append(wr, PatchName(n, cm))]

\* The end of the loop body: the warnings go to stderr, and a patch that is
\* not blank goes to its file and its path to the list.
EmitStep(r, n, cm, err, fs, wr) ==
    IF Strip(r.text, Whitespace) = <<>>
    THEN [stderr |-> err \o WarningLines(r.warnings), files |-> fs, written |-> wr]
    ELSE [stderr |-> err \o WarningLines(r.warnings), files |-> Append(fs, <<PatchName(n, cm), r.text>>), written |-> Append(wr, PatchName(n, cm))]

\* The state at the first turn of the loop: output_dir made, written empty,
\* base_dir the working directory.
InitGen ==
    /\ commits \in SeqsUpTo(CommitPool, MaxCommits)
    /\ rewrites \in MapChoices
    /\ existing \in ExistChoices
    /\ commit_idx = 1
    /\ stderr = <<>>
    /\ files = <<>>
    /\ written = <<>>
    /\ gen_log = <<>>
    /\ pc = "loop"
    /\ patch_text = <<>>
    /\ commit = <<>>
    /\ lines = <<>>
    /\ idx = 0
    /\ preamble = <<>>
    /\ chunks = <<>>
    /\ warnings = <<>>
    /\ current_chunk = None
    /\ current_target = None
    /\ result_text = <<>>
    /\ chunk_start = 0
    /\ flushed = <<>>
    /\ IdlePath
    /\ IdleParse

\* One turn of the loop, git succeeding.
GenCommit ==
    /\ pc = "loop"
    /\ commit_idx <= Len(commits)
    /\ \E out \in GitOutputs :
           LET cm == commits[commit_idx]
               r == PatchOf(out, rewrites, existing, cm)
               e == EmitStep(r, commit_idx, cm, stderr, files, written)
           IN  /\ stderr' = e.stderr
               /\ files' = e.files
               /\ written' = e.written
               /\ gen_log' = Append(gen_log, [commit |-> cm, text |-> r.text, warnings |-> r.warnings])
    /\ commit_idx' = commit_idx + 1
    /\ UNCHANGED <<commits, pc, rewrites, patchVars, pathVars, parseVars>>

\* git fails for the commit of this turn: run_git writes git's stderr and
\* the process exits.
GenGitFails ==
    /\ pc = "loop"
    /\ commit_idx <= Len(commits)
    /\ stderr' = Append(stderr, GIT_ERROR)
    /\ pc' = "exited"
    /\ UNCHANGED <<commits, commit_idx, files, written, gen_log, rewrites, patchVars, pathVars, parseVars>>

\* return written
GenReturn ==
    /\ pc = "loop"
    /\ commit_idx > Len(commits)
    /\ pc' = "returned"
    /\ UNCHANGED <<genVars, rewrites, patchVars, pathVars, parseVars>>

NextGen ==
    \/ GenCommit
    \/ GenGitFails
    \/ GenReturn

SpecGen == InitGen /\ [][NextGen]_vars

---------------------------------------------------------------------------
\* What the properties below speak of.

Range(seq) == {seq[i] : i \in 1..Len(seq)}

\* The number of file-header lines among ls.
HeaderCount(ls) == Cardinality({i \in 1..Len(ls) : IsHeaderLine(ls[i])})

\* The lines of the returned text.
OutputLines == SplitLines(result_text)

\* The input lines of the chunk a flush record is about.
RawChunk(f) == SubSeq(lines, f.first, f.last)

\* A path line that names a file, not the null device.
NamesFile(line, prefix) == StartsWith(line, prefix) /\ Drop(line, 4) # DEV_NULL

\* The path a path line names, without its "a/" or "b/" marker.
NamedPath(line) ==
    LET path_str == Drop(line, 4)
    IN  IF StartsWith(path_str, MARK_A) \/ StartsWith(path_str, MARK_B) THEN Drop(path_str, 2) ELSE path_str

SetMax(S) == CHOOSE x \in S : \A y \in S : y <= x

SetMin(S) == CHOOSE x \in S : \A y \in S : x <= y

\* The target the data model gives a chunk: the rewritten path of its last
\* "+++ " line that names a file, else of its first such "--- " line.
ExpectedTarget(raw) ==
    LET plus == {i \in 1..Len(raw) : NamesFile(raw[i], PLUS_SP)}
        minus == {i \in 1..Len(raw) : NamesFile(raw[i], MINUS_SP)}
    IN  IF plus # {} THEN Some(rewrite_relative_path(NamedPath(raw[SetMax(plus)]), rewrites))
        ELSE IF minus # {} THEN Some(rewrite_relative_path(NamedPath(raw[SetMin(minus)]), rewrites))
        ELSE None

\* p is a source of the map or lies under one.
UnderSource(p, rw) == \E k \in 1..Len(rw) : p = rw[k][1] \/ StartsWith(p, rw[k][1] \o <<"/">>)

\* The files the path lines of a chunk name.
FilesNamed(raw) == {NamedPath(raw[i]) : i \in {j \in 1..Len(raw) : NamesFile(raw[j], PLUS_SP) \/ NamesFile(raw[j], MINUS_SP)}}

\* "diff --git a/P b/P"
HeaderFor(p) == DIFF_GIT \o MARK_A \o p \o <<" ">> \o MARK_B \o p

\* The input is one chunk, from its first line on, for the one file p.
OneChunkFor(p) ==
    /\ Len(lines) >= 2
    /\ lines[1] = HeaderFor(p)
    /\ HeaderCount(lines) = 1
    /\ FilesNamed(lines) = {p}

\* C1: with a non-empty prefix map, for a patch of one chunk whose header and
\* path lines name a file P under a mapped source, when the rewritten path of
\* P exists, the returned text is not empty, it holds the file header and
\* every path line with P rewritten, and no warning is returned.
C1_ScenarioA ==
    \A p \in FilesNamed(lines) :
        (/\ pc = "done"
         /\ rewrites # <<>>
         /\ OneChunkFor(p)
         /\ UnderSource(p, rewrites)
         /\ rewrite_relative_path(p, rewrites) \in existing)
        => LET r == rewrite_relative_path(p, rewrites)
           IN  /\ result_text # <<>>
               /\ HeaderFor(r) \in Range(OutputLines)
               /\ \A i \in 2..Len(lines) :
                      NamesFile(lines[i], PLUS_SP) \/ NamesFile(lines[i], MINUS_SP)
                      => Take(lines[i], Len(lines[i]) - Len(p)) \o r \in Range(OutputLines)
               /\ warnings = <<>>

\* C2: with a non-empty prefix map, every flush of a chunk whose rewritten
\* target does not exist drops the chunk and records exactly one warning,
\* "Warning: skipping commit <commit> file <target> (missing target)".
C2_MissingTargetWarned ==
    \A k \in 1..Len(flushed) :
        LET t == ExpectedTarget(RawChunk(flushed[k]))
        IN  (rewrites # <<>> /\ t # None /\ t[1] \notin existing)
            => /\ ~flushed[k].kept
               /\ flushed[k].warnings = <<WarningText(commit, t[1])>>

\* C3: with an empty prefix map the returned text is the input text with
\* exactly one newline at its end, however many the input ends with, and no
\* warning is returned.
C3_NoOpOneTrailingNewline ==
    (pc = "done" /\ rewrites = <<>>)
    => /\ result_text = RStrip(patch_text, {"\n"}) \o NEWLINE
       /\ warnings = <<>>

\* C4: with a non-empty prefix map the returned text has at most as many
\* file-header lines as the input, and exactly as many as the input has less
\* the number of warnings returned.
C4_ChunkCount ==
    (pc = "done" /\ rewrites # <<>>)
    => /\ HeaderCount(OutputLines) <= HeaderCount(lines)
       /\ HeaderCount(OutputLines) = HeaderCount(lines) - Len(warnings)

\* Two chunks went in, a preamble came first, and both were flushed.
C4_Witness ==
    /\ pc = "done"
    /\ rewrites # <<>>
    /\ preamble # <<>>
    /\ HeaderCount(lines) = 2
    /\ Len(flushed) = 2
    /\ Len(warnings) = 2

\* C5: with a non-empty prefix map, when no chunk is kept after the last
\* flush the returned text is empty (no preamble either) and there are as many
\* warnings as the input has chunks.
C5_AllDroppedEmpty ==
    (pc = "done" /\ rewrites # <<>> /\ chunks = <<>>)
    => /\ result_text = <<>>
       /\ Len(warnings) = HeaderCount(lines)
       /\ warnings = Flatten([k \in 1..Len(flushed) |-> flushed[k].warnings])

\* After a preamble, a chunk whose rewritten target does not exist was dropped.
C5_Witness ==
    /\ pc = "done"
    /\ rewrites # <<>>
    /\ chunks = <<>>
    /\ preamble # <<>>
    /\ HeaderCount(lines) >= 1
    /\ \A k \in 1..Len(flushed) :
           LET t == ExpectedTarget(RawChunk(flushed[k]))
           IN  t # None /\ t[1] \notin existing

\* C6: for a single-entry map {src: dest}, a path equal to src is rewritten to
\* dest, and a path src + "/" + suffix, the suffix not empty and not starting
\* with a slash, is rewritten to dest + "/" + suffix.
C6_PrefixContainment ==
    (pc = "return" /\ Len(rewrites) = 1)
    => LET src == rewrites[1][1]
           dest == rewrites[1][2]
           suffix == Drop(path, Len(src) + 1)
       IN  /\ path = src => path_result = dest
           /\ (StartsWith(path, src \o <<"/">>) /\ suffix # <<>> /\ suffix[1] # "/")
              => path_result = dest \o <<"/">> \o suffix

\* C6, amended: for a single-entry map {src: dest} whose src has no leading
\* or trailing slash, a path equal to src is rewritten to dest, and a path
\* src + "/" + suffix, the suffix not empty and not starting with a slash, is
\* rewritten to dest + "/" + the suffix without its trailing slashes.
C6_PrefixContainmentStripped ==
    (pc = "return" /\ Len(rewrites) = 1 /\ Strip(rewrites[1][1], SLASH) = rewrites[1][1])
    => LET src == rewrites[1][1]
           dest == rewrites[1][2]
           suffix == Drop(path, Len(src) + 1)
       IN  /\ path = src => path_result = dest
           /\ (StartsWith(path, src \o <<"/">>) /\ suffix # <<>> /\ suffix[1] # "/")
              => path_result = dest \o <<"/">> \o RStrip(suffix, SLASH)

\* A path under the source whose suffix ends with a slash was rewritten.
C6_Witness ==
    /\ pc = "return"
    /\ Len(rewrites) = 1
    /\ StartsWith(path, rewrites[1][1] \o <<"/">>)
    /\ Len(path) > Len(rewrites[1][1]) + 2
    /\ path[Len(rewrites[1][1]) + 2] # "/"
    /\ path[Len(path)] = "/"
    /\ path_result = rewrites[1][2] \o <<"/">> \o RStrip(Drop(path, Len(rewrites[1][1]) + 1), SLASH)

\* C7: for the empty map and for every map none of whose sources s has
\* p = s or p starting with s + "/", the result is p with its leading and
\* trailing slashes stripped.
C7_UnmappedUnchanged ==
    (pc = "return" /\ ~UnderSource(path, rewrites))
    => path_result = Strip(path, SLASH)

\* C7, amended: for the empty map and for every map none of whose sources s
\* has n = s or n starting with s + "/", where n is p with its leading and
\* trailing slashes stripped, the result is n.
C7_UnmappedUnchangedStripped ==
    (pc = "return" /\ ~UnderSource(Strip(path, SLASH), rewrites))
    => path_result = Strip(path, SLASH)

\* A path that starts with the text of a source, but is not under it, came
\* back with only its slashes stripped.
C7_Witness ==
    /\ pc = "return"
    /\ rewrites # <<>>
    /\ ~UnderSource(Strip(path, SLASH), rewrites)
    /\ \E k \in 1..Len(rewrites) : StartsWith(Strip(path, SLASH), rewrites[k][1])
    /\ Strip(path, SLASH) # path
    /\ path_result = Strip(path, SLASH)

\* An entry with no "=", or with a side that is empty after trimming
\* whitespace and then leading and trailing slashes.
Malformed(raw) ==
    \/ IndexOf(raw, "=") = 0
    \/ Strip(Strip(Split1(raw, "=")[1], Whitespace), SLASH) = <<>>
    \/ Strip(Strip(Split1(raw, "=")[2], Whitespace), SLASH) = <<>>

\* C8: parse_rewrites raises, and returns no mapping, when an entry has no "="
\* or has a side that is empty after trimming whitespace and leading and
\* trailing slashes; it returns a mapping only when no entry is so.
C8_MalformedRejected ==
    /\ parse_status = "ok" => \A i \in 1..Len(entries) : ~Malformed(entries[i])
    /\ parse_status = "error" => \E i \in 1..Len(entries) : Malformed(entries[i])

\* The entries of the map that match p, by position.
MatchingEntries(p, rw) == {k \in 1..Len(rw) : Strip(p, SLASH) = rw[k][1] \/ StartsWith(Strip(p, SLASH), rw[k][1] \o <<"/">>)}

\* C9: when several entries match a path, the result is the path rewritten
\* by the first matching entry alone, whatever entries follow it.
C9_FirstMatchWins ==
    (pc = "return" /\ MatchingEntries(path, rewrites) # {})
    => path_result = rewrite_relative_path(path, <<rewrites[SetMin(MatchingEntries(path, rewrites))]>>)

\* Two entries match, and the second alone would rewrite the path otherwise.
C9_Witness ==
    /\ pc = "return"
    /\ Cardinality(MatchingEntries(path, rewrites)) = 2
    /\ path_result = rewrite_relative_path(path, <<rewrites[1]>>)
    /\ path_result # rewrite_relative_path(path, <<rewrites[2]>>)

\* C10: at every flush the tracked target is the rewritten path of the
\* chunk's last "+++ " line that names a file, else of its first such "--- "
\* line, else none.
C10_TargetAtFlush ==
    \A k \in 1..Len(flushed) : flushed[k].target = ExpectedTarget(RawChunk(flushed[k]))

\* A path line that names the null device.
IsSentinelLine(line) == IsPathLine(line) /\ Drop(line, 4) = DEV_NULL

\* C11: a chunk that reaches its flush with no target to be had from its
\* lines (no "--- " or "+++ " line, or only "/dev/null" ones, which are stored
\* as they are) is dropped with exactly one warning, whose path is "unknown
\* path", and the existence check is not asked.
C11_NoTargetDropped ==
    \A k \in 1..Len(flushed) :
        ExpectedTarget(RawChunk(flushed[k])) = None
        => /\ flushed[k].target = None
           /\ ~flushed[k].kept
           /\ ~flushed[k].queried
           /\ flushed[k].warnings = <<WarningText(commit, UNKNOWN_PATH)>>
           /\ \A j \in 1..Len(flushed[k].chunk) :
                  IsSentinelLine(RawChunk(flushed[k])[j]) => flushed[k].chunk[j] = RawChunk(flushed[k])[j]

\* A chunk with only a "/dev/null" path line and one with no path line were
\* flushed, while some paths exist under base_dir.
C11_Witness ==
    /\ existing # {}
    /\ Len(flushed) = 2
    /\ \E j \in 1..Len(RawChunk(flushed[1])) : IsSentinelLine(RawChunk(flushed[1])[j])
    /\ ExpectedTarget(RawChunk(flushed[1])) = None
    /\ Len(RawChunk(flushed[2])) = 1
    /\ Len(warnings) = 2

\* Line i of the input lies in the body of a hunk of the in-progress chunk: a
\* "@@" line of the chunk comes before it and it starts with a hunk marker.
IsHunkBodyLine(i) ==
    /\ \E h \in (chunk_start + 1)..(i - 1) : StartsWith(lines[h], <<"@", "@">>)
    /\ lines[i] # <<>>
    /\ lines[i][1] \in {" ", "+", "-", "\\"}

\* C12: every line inside a chunk that is not the file header, not a
\* before/after path line and not a rename/copy annotation is appended to the
\* chunk character for character; so is every hunk body line, one whose text
\* begins with "--- " or "+++ " included.
C12_OtherLinesVerbatim ==
    (pc = "scan" /\ current_chunk # None)
    => \A j \in 2..Len(current_chunk[1]) :
           LET i == chunk_start + j - 1
           IN  (IsHunkBodyLine(i) \/ (~IsPathLine(lines[i]) /\ ~IsAnnotationLine(lines[i])))
               => current_chunk[1][j] = lines[i]

\* The two-word annotation a line starts with.
AnnotationKeyword(line) ==
    CHOOSE kw \in {RENAME_FROM, RENAME_TO, COPY_FROM, COPY_TO} : StartsWith(line, kw)

\* C13: a "rename from P", "rename to P", "copy from P" or "copy to P" line
\* inside a chunk is stored as the same two-word annotation followed by
\* rewrite_relative_path(P, map), and it leaves the chunk's target as it was.
C13_AnnotationRewritten ==
    [][AnnotationLine
       => LET line == lines[idx]
              kw == AnnotationKeyword(line)
              stored == current_chunk'[1][Len(current_chunk'[1])]
          IN  /\ stored = kw \o rewrite_relative_path(Drop(line, Len(kw)), rewrites)
              /\ current_target' = current_target]_vars

\* "diff --git a/P b/Q", P and Q without white space.
IsFileHeader(line) ==
    /\ StartsWith(line, DIFF_GIT)
    /\ Len(Words(line)) = 4
    /\ StartsWith(Words(line)[3], MARK_A)
    /\ StartsWith(Words(line)[4], MARK_B)
    /\ line = Join(Words(line), <<" ">>)

TargetExists(f) ==
    /\ ExpectedTarget(RawChunk(f)) # None
    /\ ExpectedTarget(RawChunk(f))[1] \in existing

\* The stored lines of the chunks to keep, in input order.
ChunksToKeep ==
    LET sel == SelectSeq(flushed, TargetExists)
    IN  [k \in 1..Len(sel) |-> sel[k].chunk]

\* C15: when at least one chunk is kept, the returned text is the preamble
\* lines in input order, then one blank separator line when the preamble is
\* not empty, then the kept chunks in input order, joined by newlines and
\* ended by exactly one newline.
C15_OutputLayout ==
    (pc = "done" /\ rewrites # <<>> /\ ChunksToKeep # <<>>)
    => LET separator == IF preamble # <<>> THEN <<L_BLANK>> ELSE <<>>
           body == preamble \o separator \o Flatten(ChunksToKeep)
       IN  result_text = RStrip(Join(body, NEWLINE), {"\n"}) \o NEWLINE

\* C16: the existence check is asked exactly once for each completed chunk,
\* when the chunk is flushed (at the next file header or at the end of the
\* input), about the chunk's target path; stated for the chunks whose lines
\* name a target to ask about.
C16_ExistenceAskedPerChunk ==
    \A k \in 1..Len(flushed) :
        ExpectedTarget(RawChunk(flushed[k])) # None
        => /\ flushed[k].queried
           /\ flushed[k].target = ExpectedTarget(RawChunk(flushed[k]))

\* The target the scanner tracks over the lines raw[j..] of one chunk, from ct.
RECURSIVE TrackedTarget(_, _, _)
TrackedTarget(raw, j, ct) ==
    IF j > Len(raw) THEN ct
    ELSE IF IsPathLine(raw[j]) THEN TrackedTarget(raw, j + 1, PathLineStep(raw[j], ct, rewrites).target)
    ELSE TrackedTarget(raw, j + 1, ct)

\* C18: the tracked target never passes from one chunk to the next. Every
\* flush leaves no chunk in progress and no target; where no chunk is in
\* progress there is no target; the target of the chunk in progress, and the
\* one each flush decided on, is the one tracked from none over the lines of
\* that chunk alone (so it is none when a file header has just started it).
C18_TargetNeverLeaks ==
    /\ current_chunk = None => current_target = None
    /\ pc = "done" => current_chunk = None
    /\ (pc = "scan" /\ current_chunk # None)
       => current_target = TrackedTarget(SubSeq(lines, chunk_start, idx - 1), 2, None)
    /\ \A k \in 1..Len(flushed) :
           flushed[k].target = TrackedTarget(RawChunk(flushed[k]), 2, None)

\* A chunk with a "+++ " line that names a file was flushed by the header
\* that has just started the next chunk, and then the input ended.
C18_Witness ==
    /\ pc = "done"
    /\ rewrites # <<>>
    /\ Len(flushed) = 2
    /\ \E j \in 1..Len(RawChunk(flushed[1])) : NamesFile(RawChunk(flushed[1])[j], PLUS_SP)
    /\ Len(RawChunk(flushed[2])) = 1
    /\ current_chunk = None
    /\ current_target = None

\* C19: the scanner's mode only moves forward. While no line that starts with
\* "diff --git " has been read, every line read is in the preamble, as it is,
\* and no chunk is in progress; from the first such line on (a header of fewer
\* than four tokens too) a chunk is in progress after every line read and the
\* preamble is the lines before that first header, for good.
C19_ModeMonotone ==
    (pc \in {"scan", "done"} /\ rewrites # <<>>)
    => LET seen == {i \in 1..(idx - 1) : StartsWith(lines[i], DIFF_GIT)}
       IN  IF seen = {}
           THEN current_chunk = None /\ preamble = SubSeq(lines, 1, idx - 1)
           ELSE /\ preamble = SubSeq(lines, 1, SetMin(seen) - 1)
                /\ pc = "scan" => current_chunk # None /\ Len(current_chunk[1]) = idx - chunk_start

\* After a preamble line, a header of two tokens started a chunk that has
\* taken one more line.
C19_Witness ==
    /\ pc = "scan"
    /\ idx = 4
    /\ lines[1] = L_FROM
    /\ lines[2] = L_DIFF_SHORT
    /\ preamble = <<L_FROM>>
    /\ current_chunk # None
    /\ Len(current_chunk[1]) = 2

RECURSIVE LoggedWarnings(_)
LoggedWarnings(log) ==
    IF log = <<>> THEN <<>>
    ELSE LoggedWarnings(SubSeq(log, 1, Len(log) - 1)) \o WarningLines(log[Len(log)].warnings)

\* The patch files of the commits of a log whose content is not blank, as
\* name and content, commit after commit; commit k of the list has index k.
RECURSIVE LoggedFiles(_)
LoggedFiles(log) ==
    IF log = <<>> THEN <<>>
    ELSE LET k == Len(log)
             before == LoggedFiles(SubSeq(log, 1, k - 1))
         IN  IF Strip(log[k].text, Whitespace) = <<>> THEN before
             ELSE Append(before, <<PatchName(k, log[k].commit), log[k].text>>)

\* C17: generate_patches takes the commits in list order; it writes every
\* warning of every commit to stderr; it writes one patch file for a commit
\* exactly when the commit's patch, rewritten if there is a map, is not blank
\* (a commit whose patch is blank gets no file, its warnings are written all
\* the same); the paths it returns are those files' in commit order.
C17_OnePatchPerNonBlankCommit ==
    (pc \in {"loop", "returned", "exited"})
    => /\ Len(gen_log) = commit_idx - 1
       /\ \A k \in 1..Len(gen_log) : gen_log[k].commit = commits[k]
       /\ stderr = LoggedWarnings(gen_log) \o (IF pc = "exited" THEN <<GIT_ERROR>> ELSE <<>>)
       /\ files = LoggedFiles(gen_log)
       /\ written = [k \in 1..Len(files) |-> files[k][1]]
       /\ pc = "returned" => Len(gen_log) = Len(commits)

\* Two commits were taken under a map: the first one's patch lost its two
\* chunks and is empty, its two warnings were written, and no file was.
C17_Witness ==
    /\ pc = "returned"
    /\ Len(commits) = 2
    /\ rewrites # <<>>
    /\ gen_log[1].text = <<>>
    /\ Len(gen_log[1].warnings) = 2
    /\ Len(stderr) >= 2
    /\ written = <<>>

====
